---- MODULE Spec2Model ----
(***************************************************************************)
(* A model of cosaf: the Adjuster's adjust() loop around the external      *)
(* constraint solver, the Scheme and Candidates data model, and the two    *)
(* DomainFactory variants.                                                  *)
(*                                                                         *)
(* Colours.  A colour is a point of a small one-dimensional Lab line,      *)
(* 0 .. 5, and 6 stands for a sampled triplet outside the displayable      *)
(* gamut.  An RGB integer is a pair of neighbouring points: asInteger      *)
(* rounds a point to its integer, fromInteger gives the even point.        *)
(* Slots are numbered 1 .. n here (0 .. n-1 in the source); the omit       *)
(* index -1 of the source is NoOmit = 0.                                   *)
(***************************************************************************)
EXTENDS Integers, Sequences, FiniteSets, TLC

VARIABLES
    org,      \* Adjuster.#org: the input Scheme of the current adjust() call
    param,    \* Adjuster.#param (and the factories' snapshot of it)
    grids,    \* the Voronoi service's sampled grid of every slot (external)
    cans,     \* Adjuster.#cans
    als,      \* Adjuster.#als: the registered listeners, in registration order
    mod,      \* Adjuster.#mod
    pc,       \* where adjust() is: "idle" (not running) or "solving" (inside s.solve())
    result,   \* how the last adjust() call ended and what it returned
    call,     \* number of adjust() calls started
    nsol,     \* number of solutions the solver reported in the current call
    baseline, \* what p.worstSatisfactionDegree() returned in the current call
    report,   \* the last foundSolution callback: arguments, listener calls, answer
    given,    \* the Scheme handed to the current adjust() call, as it was at the call
    prob,     \* the Problem the current adjust() call built: variables, constraints
    variant,  \* which DomainFactory builds: 1 or 2
    omit,     \* the omitIdx argument of build (NoOmit for -1)
    built,    \* the outcome of DomainFactory.build: [threw, ret]
    dpc,      \* position of the domain-build run: "input" or "built"
    rf,       \* a RelationFactory: its variant, settings, ratios and maxDiff
    rels,     \* the relations the RelationFactory has created, in creation order
    ev,       \* the last operation applied to the RelationFactory and its outcome
    sm        \* a Scheme under measurement and the last value read from it

adjVars == <<cans, als, mod, pc, result, call, nsol, baseline, report, given, prob>>

domVars == <<variant, omit, built, dpc>>

relVars == <<rf, rels, ev, sm>>

vars == <<org, param, grids, cans, als, mod, pc, result, call, nsol, baseline, report,
          given, prob, variant, omit, built, dpc, rf, rels, ev, sm>>

-----------------------------------------------------------------------------
(* Bounds *)

MaxSlots == 2        \* slots of a Scheme
MaxGrid == 1         \* samples in one slot's grid
MaxCalls == 1        \* adjust() calls on one Adjuster
MaxSolutions == 2    \* solutions the solver reports in one call
MaxListeners == 2    \* registered listeners
MaxRelations == 2    \* newInstance calls on one RelationFactory

-----------------------------------------------------------------------------
(* Values of the JavaScript runtime that are no colour *)

Undefined == -1      \* a declared field that was never assigned
Null == -2           \* the null the source compares against
NoOmit == 0          \* omitIdx = -1

-----------------------------------------------------------------------------
(* The colour service (iroay), as far as the core uses it *)

OutOfGamut == 6
LabPoints == 0 .. 5

Abs(x) == IF x < 0 THEN -x ELSE x

Max2(a, b) == IF a < b THEN b ELSE a

Min2(a, b) == IF a < b THEN a ELSE b

\* Color.isRGBSaturated(true) of a Lab triplet
IsRGBSaturated(lab) == lab \notin LabPoints

\* Color.asInteger: two neighbouring Lab points round to one RGB integer
AsInteger(c) == c \div 2

\* Color.fromInteger
FromInteger(n) == 2 * n

\* Color.differenceFrom under trichromacy (CIE76 on the Lab line)
DifferenceFrom(a, b) == 20 * Abs(a - b)

\* Color.asTone()[0]: the hue axis, period 24
HueOf(c) == <<23, 1, 2, 6, 12, 13>>[c + 1]

\* Color.asTone()[1], [2]: the chroma plane
ToneOf(c) == << <<0, 0>>, <<1, 2>>, <<3, 0>>, <<3, 4>>, <<6, 0>>, <<6, 3>> >>[c + 1]

\* Value.newInstance(lab): null when the triplet is outside the gamut
ValueNewInstance(lab) == IF IsRGBSaturated(lab) THEN Null ELSE lab

\* the Vision enum
Visions == <<"T", "P", "D", "M">>

\* Color.toProtanopia: the Lab point a protanope sees
ToProtanopia(c) == <<0, 1, 1, 3, 3, 4>>[c + 1]

\* Color.toDeuteranopia: the Lab point a deuteranope sees
ToDeuteranopia(c) == <<0, 0, 2, 2, 4, 5>>[c + 1]

\* new Color(Lab, [L, 0, 0]): the lightness alone
ToMonochromacy(c) == <<0, 0, 1, 1, 2, 2>>[c + 1]

\* Value.getColor(vis)
ColorOf(c, vis) ==
    IF vis = "P" THEN ToProtanopia(c)
    ELSE IF vis = "D" THEN ToDeuteranopia(c)
    ELSE IF vis = "M" THEN ToMonochromacy(c)
    ELSE c

\* Value.differenceFrom(v, vis)
ValueDifferenceFrom(a, b, vis) == DifferenceFrom(ColorOf(a, vis), ColorOf(b, vis))

\* Color.asConspicuity, in tenths
AsConspicuity(c) == <<3, 4, 8, 2, 5, 9>>[c + 1]

-----------------------------------------------------------------------------
(* JavaScript numbers: a fraction n/d with d > 0, or d = 0 for the values that
   no fraction gives: NaN (n = 0), Infinity (n = 1), -Infinity (n = -1) *)

NaN == [n |-> 0, d |-> 0]

SignOf(i) == IF i > 0 THEN 1 ELSE IF i < 0 THEN -1 ELSE 0

\* the number n/d for any integers n, d: division by zero as JavaScript gives it
Frac(n, d) ==
    IF d = 0 THEN [n |-> SignOf(n), d |-> 0]
    ELSE IF d < 0 THEN [n |-> -n, d |-> -d]
    ELSE [n |-> n, d |-> d]

NumOf(i) == [n |-> i, d |-> 1]

IsNaN(x) == x.d = 0 /\ x.n = 0

IsFiniteNum(x) == x.d > 0

NegN(x) == [n |-> -x.n, d |-> x.d]

\* a - b
SubN(a, b) ==
    IF IsNaN(a) \/ IsNaN(b) THEN NaN
    ELSE IF IsFiniteNum(a) /\ IsFiniteNum(b) THEN Frac(a.n * b.d - b.n * a.d, a.d * b.d)
    ELSE IF IsFiniteNum(b) THEN a
    ELSE IF IsFiniteNum(a) THEN NegN(b)
    ELSE IF a.n = b.n THEN NaN
    ELSE a

\* a * b
MulN(a, b) ==
    IF IsNaN(a) \/ IsNaN(b) THEN NaN
    ELSE IF IsFiniteNum(a) /\ IsFiniteNum(b) THEN Frac(a.n * b.n, a.d * b.d)
    ELSE Frac(SignOf(a.n) * SignOf(b.n), 0)

\* a / b
DivN(a, b) ==
    IF IsNaN(a) \/ IsNaN(b) THEN NaN
    ELSE IF IsFiniteNum(a) /\ IsFiniteNum(b) THEN Frac(a.n * b.d, a.d * b.n)
    ELSE IF IsFiniteNum(b) THEN Frac(a.n * (IF b.n < 0 THEN -1 ELSE 1), 0)
    ELSE IF IsFiniteNum(a) THEN NumOf(0)
    ELSE NaN

\* a < b: false when either is NaN
LtN(a, b) ==
    IF IsNaN(a) \/ IsNaN(b) THEN FALSE
    ELSE IF IsFiniteNum(a) /\ IsFiniteNum(b) THEN a.n * b.d < b.n * a.d
    ELSE IF IsFiniteNum(a) THEN b.n > 0
    ELSE IF IsFiniteNum(b) THEN a.n < 0
    ELSE a.n < b.n

\* a <= b: false when either is NaN
LeN(a, b) ==
    IF IsNaN(a) \/ IsNaN(b) THEN FALSE
    ELSE ~LtN(b, a)

\* Math.min(a, b): NaN when either is NaN
MinN(a, b) ==
    IF IsNaN(a) \/ IsNaN(b) THEN NaN
    ELSE IF LtN(b, a) THEN b ELSE a

\* Math.abs(a)
AbsN(a) == IF a.n < 0 THEN NegN(a) ELSE a

\* Math.sqrt of a non-negative integer, rounded down to a whole number
RECURSIVE SqrtFrom(_, _)
SqrtFrom(x, r) == IF (r + 1) * (r + 1) > x THEN r ELSE SqrtFrom(x, r + 1)

Sqrt(x) == SqrtFrom(x, 0)

\* sig(s) = 1 / (1 + exp(-9.19 (s - 0.5))) in thousandths, tabulated at steps
\* of 0.1 of s; NaN for NaN
Sig(x) ==
    IF IsNaN(x) THEN NaN
    ELSE IF LtN(x, Frac(-5, 10)) THEN Frac(0, 1000)
    ELSE IF LtN(x, Frac(1, 10)) THEN Frac(10, 1000)
    ELSE IF LtN(x, Frac(2, 10)) THEN Frac(25, 1000)
    ELSE IF LtN(x, Frac(3, 10)) THEN Frac(60, 1000)
    ELSE IF LtN(x, Frac(4, 10)) THEN Frac(137, 1000)
    ELSE IF LtN(x, Frac(5, 10)) THEN Frac(285, 1000)
    ELSE IF LtN(x, Frac(6, 10)) THEN Frac(500, 1000)
    ELSE IF LtN(x, Frac(7, 10)) THEN Frac(715, 1000)
    ELSE IF LtN(x, Frac(8, 10)) THEN Frac(863, 1000)
    ELSE IF LtN(x, Frac(9, 10)) THEN Frac(940, 1000)
    ELSE IF LtN(x, Frac(10, 10)) THEN Frac(975, 1000)
    ELSE IF LtN(x, Frac(15, 10)) THEN Frac(990, 1000)
    ELSE Frac(1000, 1000)

-----------------------------------------------------------------------------
(* Candidates *)

\* new Candidates(): #orig is declared without an initialiser, #vs is empty
NewCandidates == [orig |-> Undefined, vs |-> <<>>, isNull |-> FALSE]

\* the null that DomainFactory1 leaves in ret when no other slot exists
NullCandidates == [orig |-> Null, vs |-> <<>>, isNull |-> TRUE]

SetOriginal(cd, v) == [cd EXCEPT !.orig = v]

GetOriginal(cd) ==
    IF cd.orig # Null THEN cd.orig
    ELSE IF Len(cd.vs) > 0 THEN cd.vs[1] ELSE Undefined

-----------------------------------------------------------------------------
(* Scheme *)

Size(s) == Len(s.colors)

IsFixed(s, i) == s.fixed[i]

GetColor(s, i) == s.colors[i]

GetDifference(s, i, j) == DifferenceFrom(s.colors[i], s.colors[j])

\* Scheme.createAllAdjacencyList(size)
RECURSIVE PairsFrom(_, _, _)
PairsFrom(i, j, n) ==
    IF i > n THEN <<>>
    ELSE IF j > n THEN PairsFrom(i + 1, i + 2, n)
    ELSE <<(<<i, j>>)>> \o PairsFrom(i, j + 1, n)

CreateAllAdjacencyList(n) == PairsFrom(1, 2, n)

\* a row that keeps the pairs of the omitted index
RECURSIVE RelOfKeepingOmitted(_, _, _, _)
RelOfKeepingOmitted(ads, i, omitted, k) ==
    IF k > Len(ads) THEN <<>>
    ELSE LET rest == RelOfKeepingOmitted(ads, i, omitted, k + 1)
         IN  IF ads[k][1] = i THEN <<ads[k][2]>> \o rest
             ELSE IF ads[k][2] = i THEN <<ads[k][1]>> \o rest
             ELSE rest

\* one row of Scheme.getAdjacencyTable(omittedIndex)
RECURSIVE RelOf(_, _, _, _)
RelOf(ads, i, omitted, k) ==
    IF k > Len(ads) THEN <<>>
    ELSE LET idx0 == ads[k][1]
             idx1 == ads[k][2]
             rest == RelOf(ads, i, omitted, k + 1)
         IN  IF idx0 = omitted \/ idx1 = omitted THEN rest
             ELSE IF idx0 = i THEN <<idx1>> \o rest
             ELSE IF idx1 = i THEN <<idx0>> \o rest
             ELSE rest

GetAdjacencyTable(s, omitted) ==
    [i \in 1 .. Size(s) |-> RelOf(s.ads, i, omitted, 1)]

\* Scheme.getDifference(idx0, idx1, vis)
GetDifferenceVis(s, i, j, vis) == ValueDifferenceFrom(s.colors[i], s.colors[j], vis)

\* the null addCombinations returns when it pushed nothing
NoCombination == [vision |-> "none"]

\* new Combination(index1, c1, index2, c2, diff, vision)
Combination(s, i, j, vis) ==
    [ index1 |-> i, c1 |-> AsInteger(ColorOf(GetColor(s, i), vis)),
      index2 |-> j, c2 |-> AsInteger(ColorOf(GetColor(s, j), vis)),
      diff |-> GetDifferenceVis(s, i, j, vis), vision |-> vis ]

\* the loops of Scheme.addCombinations from row i, entry k on: what is pushed
RECURSIVE AddCombinationsFrom(_, _, _, _, _)
AddCombinationsFrom(s, table, vis, i, k) ==
    IF i > Len(table) THEN <<>>
    ELSE IF k > Len(table[i]) THEN AddCombinationsFrom(s, table, vis, i + 1, 1)
    ELSE LET j == table[i][k]
             rest == AddCombinationsFrom(s, table, vis, i, k + 1)
         IN  IF i >= j THEN rest ELSE <<Combination(s, i, j, vis)>> \o rest

\* what Scheme.addCombinations(table, vis, dest) appends to dest
AddCombinations(s, table, vis) == AddCombinationsFrom(s, table, vis, 1, 1)

\* lowDiff of Scheme.addCombinations: the first pushed Combination of least diff
RECURSIVE LowDiffFrom(_, _, _)
LowDiffFrom(cs, k, lowDiff) ==
    IF k > Len(cs) THEN lowDiff
    ELSE IF lowDiff = NoCombination THEN LowDiffFrom(cs, k + 1, cs[k])
    ELSE IF cs[k].diff < lowDiff.diff THEN LowDiffFrom(cs, k + 1, cs[k])
    ELSE LowDiffFrom(cs, k + 1, lowDiff)

\* #lowDiffT, #lowDiffP, #lowDiffD, #lowDiffM
LowDiff(s, vis) ==
    LowDiffFrom(AddCombinations(s, GetAdjacencyTable(s, NoOmit), vis), 1, NoCombination)

\* Array.sort with the diff comparator: stable, ascending
RECURSIVE InsertByDiff(_, _)
InsertByDiff(sorted, c) ==
    IF sorted = <<>> THEN <<c>>
    ELSE IF c.diff < Head(sorted).diff THEN <<c>> \o sorted
    ELSE <<Head(sorted)>> \o InsertByDiff(Tail(sorted), c)

RECURSIVE SortFrom(_, _, _)
SortFrom(cs, k, sorted) ==
    IF k > Len(cs) THEN sorted ELSE SortFrom(cs, k + 1, InsertByDiff(sorted, cs[k]))

\* a #createAllCombinationList that leaves combs as pushed
SortByDiffSkipped(cs) == cs

SortByDiff(cs) == SortFrom(cs, 1, <<>>)

\* Scheme.#createAllCombinationList: #combs
CreateAllCombinationList(s) ==
    LET table == GetAdjacencyTable(s, NoOmit)
    IN  SortByDiff(AddCombinations(s, table, "T") \o AddCombinations(s, table, "P")
                   \o AddCombinations(s, table, "D") \o AddCombinations(s, table, "M"))

\* Scheme.getCombinationList(T, P, D, M)
GetCombinationList(s, T, P, D, M) ==
    LET Flagged(c) ==
            IF T /\ c.vision = "T" THEN TRUE
            ELSE IF P /\ c.vision = "P" THEN TRUE
            ELSE IF D /\ c.vision = "D" THEN TRUE
            ELSE M /\ c.vision = "M"
    IN  SelectSeq(CreateAllCombinationList(s), Flagged)

\* Scheme.getLowestDifference(vis): a TypeError when no Combination was pushed
GetLowestDifference(s, vis) ==
    IF LowDiff(s, vis) = NoCombination THEN [threw |-> TRUE, value |-> 0]
    ELSE [threw |-> FALSE, value |-> LowDiff(s, vis).diff]

\* Number.MAX_VALUE: above every conspicuity
MAX_VALUE == 1000

\* Number.MIN_VALUE: 5e-324, which the sum with any conspicuity absorbs
MIN_VALUE == 0

\* the first loop of Scheme.getConspicuityArray from slot i on: min and max
RECURSIVE ConspicuityRange(_, _, _, _)
ConspicuityRange(s, i, min, max) ==
    IF i > Size(s) THEN <<min, max>>
    ELSE LET c == AsConspicuity(GetColor(s, i))
         IN  IF c < min THEN ConspicuityRange(s, i + 1, c, max)
             ELSE IF max < c THEN ConspicuityRange(s, i + 1, min, c)
             ELSE ConspicuityRange(s, i + 1, min, max)

\* Scheme.getConspicuityArray()
GetConspicuityArray(s) ==
    LET r == ConspicuityRange(s, 1, MAX_VALUE, MIN_VALUE)
    IN  [i \in 1 .. Size(s) |-> Frac(AsConspicuity(GetColor(s, i)) - r[1], r[2] - r[1])]

\* dH of Scheme.aveDeltaH for one slot
DeltaH(o, m) ==
    LET asH == Abs(HueOf(m) - HueOf(o))
    IN  Min2(asH, 24 - asH)

RECURSIVE SumOf(_, _)
SumOf(f, k) == IF k = 0 THEN 0 ELSE f[k] + SumOf(f, k - 1)

\* Scheme.aveDeltaH(org, mod): the terms summed and the average
AveDeltaH(s, m) ==
    LET dH == [i \in 1 .. Size(s) |-> DeltaH(GetColor(s, i), GetColor(m, i))]
    IN  [terms |-> dH, value |-> Frac(SumOf(dH, Size(s)), Size(s))]

-----------------------------------------------------------------------------
(* Parameters: the settings the factories snapshot *)

\* Parameters with its documented defaults, hue and tone ceilings in whole steps
DefaultParam ==
    [ isRatioMode |-> TRUE, isBottleneckResolved |-> FALSE, doCheck |-> TRUE,
      doKeepHue |-> TRUE, doKeepTone |-> TRUE,
      maxDiff |-> 50, maxHueDiff |-> 3, maxToneDiff |-> 4,
      hueTol |-> 1, toneTol |-> 2 ]

-----------------------------------------------------------------------------
(* DomainFactory1 and DomainFactory2 *)

\* DomainFactory2.MAX_DELTA_HUE
MAX_DELTA_HUE == 12

\* DomainFactory2.MAX_DELTA_TONE, squared: 10 * 10 + 10 * 10
MAX_DELTA_TONE_SQ == 200

\* #dHueMax of the two constructors
DHueMax(var, p) ==
    IF var = 1 THEN p.maxHueDiff ELSE Min2(p.hueTol * 2, MAX_DELTA_HUE)

\* #dToneMax of the two constructors, squared as #isCandidate compares it
DToneMaxSq(var, p) ==
    IF var = 1 THEN p.maxToneDiff * p.maxToneDiff
    ELSE Min2((p.toneTol * 2) * (p.toneTol * 2), MAX_DELTA_TONE_SQ)

\* the circular hue distance of #isCandidate
HueDistance(a, b) == Min2(Abs(a - b), 24 - Abs(a - b))

\* the squared chroma-plane distance of #isCandidate
ToneDistanceSq(a, b) ==
    (a[1] - b[1]) * (a[1] - b[1]) + (a[2] - b[2]) * (a[2] - b[2])

\* an #isCandidate without the hue test
IsCandidateWithoutHue(var, s, p, idx, cv, maxDiff) ==
    IF maxDiff < DifferenceFrom(GetColor(s, idx), cv) THEN FALSE
    ELSE IF p.doKeepTone /\ DToneMaxSq(var, p) < ToneDistanceSq(ToneOf(cv), ToneOf(GetColor(s, idx)))
         THEN FALSE
    ELSE TRUE

\* DomainFactory1.#isCandidate / DomainFactory2.#isCandidate
IsCandidate(var, s, p, idx, cv, maxDiff) ==
    IF maxDiff < DifferenceFrom(GetColor(s, idx), cv) THEN FALSE
    ELSE IF p.doKeepHue /\ DHueMax(var, p) < HueDistance(HueOf(cv), HueOf(GetColor(s, idx)))
         THEN FALSE
    ELSE IF p.doKeepTone /\ DToneMaxSq(var, p) < ToneDistanceSq(ToneOf(cv), ToneOf(GetColor(s, idx)))
         THEN FALSE
    ELSE TRUE

\* DomainFactory2.#getMaxDiff(adjTab, idx)
RECURSIVE MaxOverRel(_, _, _, _)
MaxOverRel(s, idx, rel, k) ==
    IF k > Len(rel) THEN 0
    ELSE Max2(GetDifference(s, idx, rel[k]), MaxOverRel(s, idx, rel, k + 1))

GetMaxDiff(s, adjTab, idx) == MaxOverRel(s, idx, adjTab[idx], 1)

\* the cap build() hands to #isCandidate for slot i
CapOf(var, s, p, at, i) == IF var = 1 THEN p.maxDiff ELSE GetMaxDiff(s, at, i)

\* the inner loop of build(): the displayable samples that pass #isCandidate
RECURSIVE Filtered(_, _, _, _, _, _, _)
Filtered(var, s, p, i, grid, cap, k) ==
    IF k > Len(grid) THEN <<>>
    ELSE LET cv == ValueNewInstance(grid[k])
             rest == Filtered(var, s, p, i, grid, cap, k + 1)
         IN  IF cv = Null THEN rest
             ELSE IF IsCandidate(var, s, p, i, cv, cap) THEN <<cv>> \o rest
             ELSE rest

\* the displayable samples of a grid: `full` of DomainFactory1.build and
\* DomainFactory2.#createFullDomain
RECURSIVE Displayable(_, _)
Displayable(grid, k) ==
    IF k > Len(grid) THEN <<>>
    ELSE LET cv == ValueNewInstance(grid[k])
         IN  IF cv = Null THEN Displayable(grid, k + 1)
             ELSE <<cv>> \o Displayable(grid, k + 1)

\* build() without its fallback: an empty list stays empty
WithFallbackDropped(s, i, vs) == vs

\* the fallback of build(): the slot's own colour when nothing was kept
WithFallback(s, i, vs) ==
    IF Len(vs) # 0 THEN vs
    ELSE LET cv == ValueNewInstance(GetColor(s, i))
         IN  IF cv # Null THEN <<cv>> ELSE <<>>

\* the Candidates build() pushes for a slot other than the omitted one
SlotCandidates(var, s, p, g, at, i) ==
    LET vs == IF ~IsFixed(s, i)
              THEN Filtered(var, s, p, i, g[i], CapOf(var, s, p, at, i), 1)
              ELSE <<>>
    IN  [NewCandidates EXCEPT !.vs = WithFallback(s, i, vs)]

\* DomainFactory1.build: the fullDom left after slots i .. n
RECURSIVE FullDom1(_, _, _, _, _)
FullDom1(s, g, omitIdx, i, fullDom) ==
    IF i > Size(s) THEN fullDom
    ELSE IF i = omitIdx THEN FullDom1(s, g, omitIdx, i + 1, fullDom)
    ELSE LET full == [NewCandidates EXCEPT
                         !.vs = IF ~IsFixed(s, i) THEN Displayable(g[i], 1) ELSE <<>>]
         IN  IF fullDom.isNull \/ Len(fullDom.vs) < Len(full.vs)
             THEN FullDom1(s, g, omitIdx, i + 1, full)
             ELSE FullDom1(s, g, omitIdx, i + 1, fullDom)

\* DomainFactory1.build(omitIdx)
Build1(s, p, g, omitIdx) ==
    LET at == GetAdjacencyTable(s, omitIdx)
    IN  [ threw |-> FALSE,
          ret |-> [i \in 1 .. Size(s) |->
                     IF i = omitIdx THEN FullDom1(s, g, omitIdx, 1, NullCandidates)
                     ELSE SlotCandidates(1, s, p, g, at, i)] ]

\* DomainFactory2.build: fullDomIndex after slots i .. n (0 stands for -1)
RECURSIVE FullDomIndex2(_, _, _, _, _)
FullDomIndex2(s, g, omitIdx, i, best) ==
    IF i > Size(s) THEN best[2]
    ELSE IF i = omitIdx THEN FullDomIndex2(s, g, omitIdx, i + 1, best)
    ELSE IF best[1] < Len(g[i]) THEN FullDomIndex2(s, g, omitIdx, i + 1, <<Len(g[i]), i>>)
    ELSE FullDomIndex2(s, g, omitIdx, i + 1, best)

\* DomainFactory2.#createFullDomain(idx, vp) for a valid idx
CreateFullDomain(g, idx) == [NewCandidates EXCEPT !.vs = Displayable(g[idx], 1)]

\* DomainFactory2.build(omitIdx); calcGridsOfNone is what the Voronoi service
\* does when asked for the grid of site -1: "throw" or "empty"
Build2(s, p, g, omitIdx, calcGridsOfNone) ==
    LET at == GetAdjacencyTable(s, omitIdx)
        fdi == FullDomIndex2(s, g, omitIdx, 1, <<0, 0>>)
        full == IF fdi = 0 THEN NewCandidates ELSE CreateFullDomain(g, fdi)
        cur == ValueNewInstance(GetColor(s, omitIdx))
    IN  IF omitIdx # NoOmit /\ fdi = 0 /\ calcGridsOfNone = "throw"
        THEN [threw |-> TRUE, ret |-> <<>>]
        ELSE [ threw |-> FALSE,
               ret |-> [i \in 1 .. Size(s) |->
                          IF i = omitIdx THEN SetOriginal(full, cur)
                          ELSE SlotCandidates(2, s, p, g, at, i)] ]

Build(var, s, p, g, omitIdx, calcGridsOfNone) ==
    IF var = 1 THEN Build1(s, p, g, omitIdx)
    ELSE Build2(s, p, g, omitIdx, calcGridsOfNone)

-----------------------------------------------------------------------------
(* Inputs *)

SeqsUpTo(S, k) == UNION {[1 .. m -> S] : m \in 0 .. k}

\* the points the Voronoi service may sample for a slot whose colour is c:
\* a near point (same RGB integer), the next RGB integer, a triplet outside the gamut
SamplesOf(c) == {(c + 1) % 6, (c + 2) % 6, OutOfGamut}

\* two palettes: three distinct RGB integers in turn, and one integer everywhere
Palettes(n) ==
    { [i \in 1 .. n |-> FromInteger((2 * (i - 1)) % 3)], [i \in 1 .. n |-> FromInteger(1)] }

\* a chain of pairs given higher index first
Chain(n) == [k \in 1 .. n - 1 |-> <<k + 1, k>>]

AdjacencyChoices(n) == {CreateAllAdjacencyList(n), <<>>, Chain(n)}

\* new Scheme(colorInts, adjacencies, fixed): quality defaults to 1 (1000 per mille)
NewScheme(colors, ads, fixed, quality, bn, born) ==
    [colors |-> colors, ads |-> ads, fixed |-> fixed, quality |-> quality,
     bn |-> bn, born |-> born]

NoScheme == NewScheme(<<>>, <<>>, <<>>, 0, 0, <<0, 0>>)

SchemesOfSize(n, palettes, adjacencies) ==
    { NewScheme(c, a, f, 1000, b, <<0, 0>>) :
        c \in palettes, a \in adjacencies, f \in [1 .. n -> BOOLEAN], b \in 1 .. n }

\* does build() ask the Voronoi service for the grid of slot i?
IsGridRead(var, s, omitIdx, i) ==
    /\ i # omitIdx
    /\ (var = 2 /\ omitIdx # NoOmit) \/ ~IsFixed(s, i)

\* the grids of slots 1 .. k of a scheme; a grid that build() never reads is left
\* empty, except the omitted slot's own cell in variant 2, which holds one sample
\* at most
RECURSIVE GridsUpTo(_, _, _, _, _)
GridsUpTo(var, s, omitIdx, maxGrid, k) ==
    IF k = 0 THEN {<<>>}
    ELSE LET here == IF IsGridRead(var, s, omitIdx, k)
                     THEN SeqsUpTo(SamplesOf(GetColor(s, k)), maxGrid)
                     ELSE IF var = 2 /\ k = omitIdx
                     THEN SeqsUpTo(SamplesOf(GetColor(s, k)), Min2(maxGrid, 1))
                     ELSE {<<>>}
         IN  { Append(g, x) : g \in GridsUpTo(var, s, omitIdx, maxGrid, k - 1), x \in here }

GridsOf(var, s, omitIdx, maxGrid) == GridsUpTo(var, s, omitIdx, maxGrid, Size(s))

ParamFlags ==
    { [DefaultParam EXCEPT !.doKeepHue = h, !.doKeepTone = t] : h \in BOOLEAN, t \in BOOLEAN }

NoBuild == [threw |-> FALSE, ret |-> <<>>]

NoReport == [solution |-> <<>>, degree |-> 0, calls |-> <<>>, answers |-> <<>>,
             finish |-> FALSE]

NoResult == [kind |-> "none", value |-> NoScheme]

\* no Problem: adjust() was not called, or threw before it had built one
NoProblem == [built |-> FALSE, bottleneck |-> NoOmit, vars |-> <<>>, cons |-> <<>>, calls |-> <<>>]

NoFactory == [kind |-> 0]

NoEvaluation == [op |-> "none"]

NoMeasure == [op |-> "none"]

\* no RelationFactory and no measured Scheme
RelIdle ==
    /\ rf = NoFactory
    /\ rels = <<>>
    /\ ev = NoEvaluation
    /\ sm = NoMeasure

AdjusterNew ==
    /\ cans = <<>>
    /\ als = <<>>
    /\ mod = NoScheme
    /\ pc = "idle"
    /\ result = NoResult
    /\ call = 0
    /\ nsol = 0
    /\ baseline = -1
    /\ report = NoReport
    /\ given = NoScheme
    /\ prob = NoProblem

-----------------------------------------------------------------------------
(* SpecDom: one DomainFactory.build call on every input within the bounds *)

DomInit ==
    /\ AdjusterNew
    /\ RelIdle
    /\ dpc = "input"
    /\ built = NoBuild
    /\ variant \in {1, 2}
    /\ \E n \in 1 .. MaxSlots :
         /\ org \in { s \in SchemesOfSize(n, Palettes(n), AdjacencyChoices(n)) : s.bn = 1 }
         /\ omit \in 0 .. n
    /\ param \in ParamFlags
    /\ grids \in GridsOf(variant, org, omit, MaxGrid)

\* new DomainFactory1/2(org, param).build(omit)
DomBuild ==
    /\ dpc = "input"
    /\ \E calcGridsOfNone \in {"throw", "empty"} :
         built' = Build(variant, org, param, grids, omit, calcGridsOfNone)
    /\ dpc' = "built"
    /\ UNCHANGED <<org, param, grids, variant, omit>>
    /\ UNCHANGED adjVars
    /\ UNCHANGED relVars

DomNext == DomBuild

SpecDom == DomInit /\ [][DomNext]_vars


-----------------------------------------------------------------------------
(* Adjuster: building the problem *)

\* satisfaction degrees in thousandths: 0.5, 0.999 and 1
Degrees == {500, 999, 1000}

ListenerIds == {1, 2}

\* a setQualityInternally that also clears the fixed flags
SetQualityInternallyAndFlags(s, quality) ==
    [s EXCEPT !.quality = quality, !.fixed = [i \in 1 .. Size(s) |-> FALSE]]

\* a setQualityInternally that forgets the assignment
SetQualityInternallySkipped(s, quality) == s

\* Scheme.setQualityInternally(quality)
SetQualityInternally(s, quality) == [s EXCEPT !.quality = quality]

\* Scheme.#createAllCombinationList found no pair: #lowDiffT .. #lowDiffM are null
LowestDifferenceIsNull(s) ==
    LET table == GetAdjacencyTable(s, NoOmit)
    IN  \A i \in 1 .. Size(s) : \A k \in 1 .. Len(table[i]) : i >= table[i][k]

\* new RelationFactory1(s, param) reads getLowestDifference of every checked vision
RelationFactory1Throws(s, p) == p.doCheck /\ LowestDifferenceIsNull(s)

\* RelationFactory2.newInstance dereferences both originals
NewInstanceThrows(var, cans0, cans1) ==
    var = 2 /\ (GetOriginal(cans0) = Undefined \/ GetOriginal(cans1) = Undefined)

\* the nom argument of the two createProblem methods (bottleneck is NoOmit in #createProblem)
NoPreservation(s, bottleneck, idx0, idx1) ==
    IF idx1 = bottleneck \/ IsFixed(s, idx1) THEN 1
    ELSE IF idx0 = bottleneck \/ IsFixed(s, idx0) THEN 0
    ELSE -1

\* a constraint loop that skips no pair
BothFixedNever(s, idx0, idx1) == FALSE

\* the test of the constraint loop: no constraints if both are fixed colors
BothFixed(s, idx0, idx1) == IsFixed(s, idx0) /\ IsFixed(s, idx1)

\* the constraint loop: the constraints of pairs k .. Len(ads), or a throw; calls
\* are the newInstance calls made, the one that threw included
RECURSIVE CreateConstraints(_, _, _, _, _)
CreateConstraints(var, s, cs, bottleneck, k) ==
    IF k > Len(s.ads) THEN [threw |-> FALSE, cons |-> <<>>, calls |-> <<>>]
    ELSE LET idx0 == s.ads[k][1]
             idx1 == s.ads[k][2]
             rest == CreateConstraints(var, s, cs, bottleneck, k + 1)
             this == [idx0 |-> idx0, idx1 |-> idx1,
                      nom |-> NoPreservation(s, bottleneck, idx0, idx1)]
         IN  IF BothFixed(s, idx0, idx1) THEN rest
             ELSE IF NewInstanceThrows(var, cs[idx0], cs[idx1])
                  THEN [threw |-> TRUE, cons |-> <<>>, calls |-> <<this>>]
             ELSE [ threw |-> rest.threw,
                    cons |-> <<this>> \o rest.cons,
                    calls |-> <<this>> \o rest.calls ]

\* the variable loop: one variable per Candidates, domain 0 .. length - 1, value 0
CreateVariables(cs) ==
    [i \in 1 .. Len(cs) |-> [min |-> 0, max |-> Len(cs[i].vs) - 1, value |-> 0]]

\* Adjuster.#createProblem (bottleneck = NoOmit) and #createProblemWithBottleneck:
\* threw, whether #cans was assigned before the throw, the new #cans, the constraints
CreateProblem(s, p, g, bottleneck, calcGridsOfNone) ==
    LET var == IF p.isRatioMode THEN 2 ELSE 1
        b == Build(var, s, p, g, bottleneck, calcGridsOfNone)
        c == CreateConstraints(var, s, b.ret, bottleneck, 1)
    IN  IF var = 1 /\ RelationFactory1Throws(s, p)
        THEN [threw |-> TRUE, assigned |-> FALSE, cans |-> <<>>, cons |-> <<>>,
              vars |-> <<>>, calls |-> <<>>]
        ELSE IF b.threw
        THEN [threw |-> TRUE, assigned |-> FALSE, cans |-> <<>>, cons |-> <<>>,
              vars |-> <<>>, calls |-> <<>>]
        ELSE IF \E i \in 1 .. Size(s) : b.ret[i].isNull
        THEN [threw |-> TRUE, assigned |-> TRUE, cans |-> b.ret, cons |-> <<>>,
              vars |-> <<>>, calls |-> <<>>]
        ELSE [threw |-> c.threw, assigned |-> TRUE, cans |-> b.ret, cons |-> c.cons,
              vars |-> CreateVariables(b.ret), calls |-> c.calls]

\* p.worstSatisfactionDegree() evaluates every relation at candidate 0 of both sides:
\* does one of them dereference a candidate that is not there?
WorstDegreeThrows(p, cs, cons) ==
    \E k \in 1 .. Len(cons) :
        LET e0 == Len(cs[cons[k].idx0].vs) = 0
            e1 == Len(cs[cons[k].idx1].vs) = 0
        IN  \/ p.doCheck /\ (e0 \/ e1)
            \/ p.isRatioMode /\ ((cons[k].nom # 0 /\ e0) \/ (cons[k].nom # 1 /\ e1))

\* the values p.worstSatisfactionDegree() can return: 1 when no constraint exists
WorstDegrees(cons) == IF Len(cons) = 0 THEN {1000} ELSE Degrees

-----------------------------------------------------------------------------
(* Adjuster: the solution callback *)

\* the colorInts #notifyResult collects from the solution
ResultColors(cs, solution) ==
    [i \in 1 .. Len(cs) |-> AsInteger(cs[i].vs[solution[i]])]

\* #notifyResult calling new Scheme(colorInts, adjacencies) without the quality
\* argument: the quality defaults to 1
SchemeOfResultDefaultQuality(res, ads, quality, born) ==
    NewScheme([i \in 1 .. Len(res) |-> FromInteger(res[i])], ads,
              [i \in 1 .. Len(res) |-> FALSE], 1000, 1, born)

\* new Scheme(colorInts, adjacencies, null, quality) as #notifyResult calls it
SchemeOfResult(res, ads, quality, born) ==
    NewScheme([i \in 1 .. Len(res) |-> FromInteger(res[i])], ads,
              [i \in 1 .. Len(res) |-> FALSE], quality, 1, born)

\* a loop over #als that walks the list from its end
ListenerCallsReversed(ls, m) ==
    [k \in 1 .. Len(ls) |-> [al |-> ls[Len(ls) + 1 - k], scheme |-> m]]

\* the loop over #als: the listeners called, each with the Scheme it was handed
ListenerCalls(ls, m) == [k \in 1 .. Len(ls) |-> [al |-> ls[k], scheme |-> m]]

\* the loop over #als from listener k on: finish is set by every answer of true
\* and cleared by none
RECURSIVE FinishLoop(_, _, _)
FinishLoop(answers, k, finish) ==
    IF k > Len(answers) THEN finish
    ELSE FinishLoop(answers, k + 1, IF answers[k] THEN TRUE ELSE finish)

\* automatic termination at worstDegree >= 0.999 instead of > 0.999
FinishAtThreshold(worstDegree, answers) == FinishLoop(answers, 1, worstDegree >= 999)

\* the value of finish when #notifyResult returns
Finish(worstDegree, answers) == FinishLoop(answers, 1, worstDegree > 999)

\* Adjuster.#notifyResult(solution, worstDegree); answers[k] is what the k-th
\* registered listener returns
NotifyResult(s, cs, ls, solution, worstDegree, answers, born) ==
    LET m == SchemeOfResult(ResultColors(cs, solution), s.ads, worstDegree, born)
    IN  [ mod |-> m,
          calls |-> ListenerCalls(ls, m),
          finish |-> Finish(worstDegree, answers) ]

\* the assignments the solver can report for variables 1 .. k: one candidate
\* index of its domain per variable
RECURSIVE SolutionsUpTo(_, _)
SolutionsUpTo(cs, k) ==
    IF k = 0 THEN {<<>>}
    ELSE { Append(f, v) : f \in SolutionsUpTo(cs, k - 1), v \in 1 .. Len(cs[k].vs) }

Solutions(cs) == SolutionsUpTo(cs, Len(cs))

\* the worst degrees the solver can report for an assignment: the minimum over
\* the constraints, which is 1 when the problem has none
ReportedDegrees(s) ==
    IF \E k \in 1 .. Len(s.ads) : ~(IsFixed(s, s.ads[k][1]) /\ IsFixed(s, s.ads[k][2]))
    THEN Degrees
    ELSE {1000}

-----------------------------------------------------------------------------
(* Spec: an Adjuster, its listeners and parameters, and adjust() calls *)

AdjusterParams ==
    { [DefaultParam EXCEPT !.isRatioMode = r, !.isBottleneckResolved = b, !.doCheck = c] :
        r \in BOOLEAN, b \in BOOLEAN, c \in BOOLEAN }

\* the Schemes handed to adjust(): distinct colours, all pairs adjacent or none
AdjusterSchemes ==
    UNION { SchemesOfSize(n, {[i \in 1 .. n |-> FromInteger((2 * (i - 1)) % 3)]},
                          {CreateAllAdjacencyList(n), <<>>}) : n \in 1 .. MaxSlots }

\* the grids the Voronoi service answers with during adjust(): every cell that
\* build() reads is sampled at the same two offsets, or every cell is empty
AdjusterGrids(var, s, omitIdx) ==
    { [i \in 1 .. Size(s) |->
         IF IsGridRead(var, s, omitIdx, i) /\ sampled
         THEN <<(GetColor(s, i) + 1) % 6, (GetColor(s, i) + 2) % 6>>
         ELSE <<>>] : sampled \in BOOLEAN }

Init ==
    /\ AdjusterNew
    /\ RelIdle
    /\ org = NoScheme
    /\ param = DefaultParam
    /\ grids = <<>>
    /\ variant = 1
    /\ omit = NoOmit
    /\ built = NoBuild
    /\ dpc = "input"

\* Adjuster.setParameters(param)
SetParameters(p) ==
    /\ pc = "idle"
    /\ call < MaxCalls
    /\ param' = p
    /\ UNCHANGED <<org, grids>>
    /\ UNCHANGED adjVars
    /\ UNCHANGED domVars
    /\ UNCHANGED relVars

\* Adjuster.addListener(al)
AddListener(al) ==
    /\ pc = "idle"
    /\ call < MaxCalls
    /\ Len(als) < MaxListeners
    /\ als' = Append(als, al)
    /\ UNCHANGED <<org, param, grids, cans, mod, pc, result, call, nsol, baseline, report, given, prob>>
    /\ UNCHANGED domVars
    /\ UNCHANGED relVars

\* Array.indexOf / splice(i, 1): the list without its first entry equal to al
RemoveFirst(ls, al) ==
    IF \E k \in 1 .. Len(ls) : ls[k] = al
    THEN LET i == CHOOSE k \in 1 .. Len(ls) : ls[k] = al /\ \A j \in 1 .. k - 1 : ls[j] # al
         IN  SubSeq(ls, 1, i - 1) \o SubSeq(ls, i + 1, Len(ls))
    ELSE ls

\* Adjuster.removeListener(al)
RemoveListener(al) ==
    /\ pc = "idle"
    /\ call < MaxCalls
    /\ als' = RemoveFirst(als, al)
    /\ UNCHANGED <<org, param, grids, cans, mod, pc, result, call, nsol, baseline, report, given, prob>>
    /\ UNCHANGED domVars
    /\ UNCHANGED relVars

\* Adjuster.adjust(org) up to s.solve(): the problem is built, the baseline is
\* recorded on org and the solver is started, or an exception leaves adjust()
Adjust(s, g, calcGridsOfNone, degree) ==
    LET bottleneck == IF param.isBottleneckResolved THEN s.bn ELSE NoOmit
        p == CreateProblem(s, param, g, bottleneck, calcGridsOfNone)
        threw == p.threw \/ WorstDegreeThrows(param, p.cans, p.cons)
    IN  /\ pc = "idle"
        /\ call < MaxCalls
        /\ degree \in WorstDegrees(p.cons)
        /\ call' = call + 1
        /\ nsol' = 0
        /\ report' = NoReport
        /\ grids' = g
        /\ given' = s
        /\ cans' = IF p.assigned THEN p.cans ELSE cans
        /\ prob' = [built |-> ~p.threw, bottleneck |-> bottleneck,
                    vars |-> p.vars, cons |-> p.cons, calls |-> p.calls]
        /\ IF threw
           THEN /\ org' = s
                /\ baseline' = -1
                /\ pc' = "idle"
                /\ result' = [kind |-> "thrown", value |-> NoScheme]
           ELSE /\ org' = SetQualityInternally(s, degree)
                /\ baseline' = degree
                /\ pc' = "solving"
                /\ result' = NoResult
        /\ UNCHANGED <<param, als, mod>>
        /\ UNCHANGED domVars
        /\ UNCHANGED relVars

\* the solver reports a solution: the foundSolution callback of #createSolver
FoundSolution(solution, worstDegree, answers) ==
    LET r == NotifyResult(org, cans, als, solution, worstDegree, answers, <<call, nsol + 1>>)
    IN  /\ pc = "solving"
        /\ ~report.finish
        /\ nsol < MaxSolutions
        /\ nsol' = nsol + 1
        /\ mod' = r.mod
        /\ report' = [solution |-> solution, degree |-> worstDegree, calls |-> r.calls,
                      answers |-> answers, finish |-> r.finish]
        /\ UNCHANGED <<org, param, grids, cans, als, pc, result, call, baseline, given, prob>>
        /\ UNCHANGED domVars
        /\ UNCHANGED relVars

\* what adjust() returns after s.solve() returned found
Returned(found, m) ==
    IF ~found THEN [kind |-> "null", value |-> NoScheme]
    ELSE IF m = NoScheme THEN [kind |-> "undefined", value |-> NoScheme]
    ELSE [kind |-> "scheme", value |-> m]

\* s.solve() returns and adjust() returns
SolveReturns(found) ==
    /\ pc = "solving"
    /\ pc' = "idle"
    /\ result' = Returned(found, mod)
    /\ UNCHANGED <<org, param, grids, cans, als, mod, call, nsol, baseline, report, given, prob>>
    /\ UNCHANGED domVars
    /\ UNCHANGED relVars

\* s.solve() throws: adjust() catches and returns null
SolveThrows ==
    /\ pc = "solving"
    /\ pc' = "idle"
    /\ result' = [kind |-> "null", value |-> NoScheme]
    /\ UNCHANGED <<org, param, grids, cans, als, mod, call, nsol, baseline, report, given, prob>>
    /\ UNCHANGED domVars
    /\ UNCHANGED relVars

Next ==
    \/ \E p \in AdjusterParams : SetParameters(p)
    \/ \E al \in ListenerIds : AddListener(al)
    \/ \E al \in ListenerIds : RemoveListener(al)
    \/ /\ pc = "idle"
       /\ call < MaxCalls
       /\ \E s \in AdjusterSchemes, c \in {"throw", "empty"}, d \in Degrees :
            \E g \in AdjusterGrids(IF param.isRatioMode THEN 2 ELSE 1, s,
                                    IF param.isBottleneckResolved THEN s.bn ELSE NoOmit) :
               Adjust(s, g, c, d)
    \/ /\ pc = "solving"
       /\ \E sol \in Solutions(cans), d \in ReportedDegrees(org), a \in [1 .. Len(als) -> BOOLEAN] :
            FoundSolution(sol, d, a)
    \/ \E found \in BOOLEAN : SolveReturns(found)
    \/ SolveThrows

Spec == Init /\ [][Next]_vars

-----------------------------------------------------------------------------
(* RelationFactory1, RelationFactory2 and RelationFactory3 *)

\* the settings the three constructors read from Parameters, at their
\* documented defaults, tolerances and ceilings in whole steps
RelationParam ==
    [ doCheckT |-> FALSE, doCheckP |-> TRUE, doCheckD |-> TRUE, doCheckM |-> FALSE,
      tarDiff |-> 20,
      doKeepHue |-> TRUE, hueTol |-> DefaultParam.hueTol, maxHueDiff |-> DefaultParam.maxHueDiff,
      doKeepTone |-> TRUE, toneTol |-> DefaultParam.toneTol,
      maxToneDiff |-> DefaultParam.maxToneDiff,
      conspicuity |-> FALSE, conspicuityRate |-> Frac(1, 2) ]

\* param.doCheckVision(vis) for the four visions in enum order
ChecksOf(p) == <<p.doCheckT, p.doCheckP, p.doCheckD, p.doCheckM>>

\* DomainFactory2.MAX_DELTA_TONE
MAX_DELTA_TONE == Sqrt(MAX_DELTA_TONE_SQ)

\* the value that marks an unchecked vision or an unkept axis in the scale functions
Unchecked == 1024

\* the greatest number of a set that holds no NaN
MaxN(S) == CHOOSE x \in S : \A y \in S : ~LtN(x, y)

\* Math.max(...ds) over whole numbers
MaxOf(S) == CHOOSE x \in S : \A y \in S : y <= x

\* new RelationFactory1(s, param)
NewRelationFactory1(s, p) ==
    LET checked == { v \in 1 .. 4 : ChecksOf(p)[v] }
    IN  IF \E v \in checked : GetLowestDifference(s, Visions[v]).threw
        THEN [kind |-> 1, threw |-> TRUE]
        ELSE [ kind |-> 1, threw |-> FALSE,
               doCheck |-> ChecksOf(p), tarDiff |-> p.tarDiff,
               maxDiff |-> NumOf(MaxOf({0} \cup
                              { p.tarDiff - GetLowestDifference(s, Visions[v]).value :
                                  v \in checked })),
               doKeepHue |-> p.doKeepHue, hueTol |-> NumOf(p.hueTol),
               maxHueTol |-> NumOf(p.maxHueDiff),
               doKeepTone |-> p.doKeepTone, toneTol |-> NumOf(p.toneTol),
               maxToneTol |-> NumOf(p.maxToneDiff),
               doCheckConspicuity |-> p.conspicuity, conspicuityRate |-> p.conspicuityRate,
               conspicuityArray |-> IF p.conspicuity THEN GetConspicuityArray(s) ELSE <<>> ]

\* new RelationFactory2(s, p, bottleneckColor)
NewRelationFactory2(s, p, bottleneckColor) ==
    [ kind |-> 2, threw |-> FALSE,
      doCheck |-> <<FALSE, p.doCheckP, p.doCheckD, p.doCheckM>>,
      ratioToTri |-> <<NumOf(1)>>, maxDiff |-> <<NaN>>,
      doKeepHue |-> p.doKeepHue, hueTol |-> NumOf(p.hueTol),
      maxHueD |-> MinN(MulN(NumOf(p.hueTol), NumOf(2)), NumOf(MAX_DELTA_HUE)),
      doKeepTone |-> p.doKeepTone, toneTol |-> NumOf(p.toneTol),
      maxToneD |-> MinN(MulN(NumOf(p.toneTol), NumOf(2)), NumOf(MAX_DELTA_TONE)),
      bottleneckColor |-> bottleneckColor ]

\* new RelationFactory3(s, param): toneTol is computed from maxToneD before
\* maxToneD is assigned, and maxToneD receives the tolerance
NewRelationFactory3(s, p) ==
    [ kind |-> 3, threw |-> FALSE,
      doCheck |-> <<FALSE, p.doCheckP, p.doCheckD, p.doCheckM>>,
      ratioToTri |-> <<NumOf(1), NumOf(1), NumOf(1)>>, maxDiff |-> <<NaN, NaN, NaN>>,
      doKeepHue |-> p.doKeepHue, hueTol |-> NumOf(p.hueTol),
      maxHueD |-> MinN(MulN(NumOf(p.hueTol), NumOf(2)), NumOf(MAX_DELTA_HUE)),
      doKeepTone |-> p.doKeepTone,
      toneTol |-> MinN(MulN(NaN, NumOf(2)), NumOf(MAX_DELTA_TONE)),
      maxToneD |-> NumOf(p.toneTol),
      bottleneckColor |-> NoOmit ]

NewRelationFactory(kind, s, p, bottleneckColor) ==
    IF kind = 1 THEN NewRelationFactory1(s, p)
    ELSE IF kind = 2 THEN NewRelationFactory2(s, p, bottleneckColor)
    ELSE NewRelationFactory3(s, p)

\* the hue difference of a preScale call that did not look at the hue
NoHue == -1

\* RelationFactory1.#p2s(idx, d, tol, maxTol)
P2S(f, idx, d, tol, maxTol) ==
    LET t == IF f.doCheckConspicuity
             THEN MulN(tol, SubN(NumOf(1), MulN(f.conspicuityRate, f.conspicuityArray[idx])))
             ELSE tol
    IN  DivN(SubN(maxTol, d), SubN(maxTol, t))

\* the chroma-plane distance of the three preScale methods
ToneDistance(o, m) == Sqrt(ToneDistanceSq(ToneOf(m), ToneOf(o)))

\* RelationFactory1.preScale(idx, org, mod): threw, the hue difference scored, the scale
PreScale1(f, idx, o, m) ==
    IF ~f.doKeepHue /\ ~f.doKeepTone
    THEN [threw |-> FALSE, hueD |-> NoHue, value |-> NumOf(1)]
    ELSE IF o = Undefined THEN [threw |-> TRUE, hueD |-> NoHue, value |-> NaN]
    ELSE LET d == Abs(HueOf(m) - HueOf(o))
             sH == IF f.doKeepHue THEN P2S(f, idx, NumOf(d), f.hueTol, f.maxHueTol)
                   ELSE NumOf(Unchecked)
             sT == IF f.doKeepTone
                   THEN P2S(f, idx, NumOf(ToneDistance(o, m)), f.toneTol, f.maxToneTol)
                   ELSE NumOf(Unchecked)
         IN  [ threw |-> FALSE, hueD |-> IF f.doKeepHue THEN d ELSE NoHue,
               value |-> MinN(sH, sT) ]

\* RelationFactory2.preScale(org, mod) and RelationFactory3.preScale(org, mod)
PreScale23(f, o, m) ==
    IF o = Undefined THEN [threw |-> TRUE, hueD |-> NoHue, value |-> NaN]
    ELSE IF AsInteger(o) = AsInteger(m)
    THEN [threw |-> FALSE, hueD |-> NoHue, value |-> NumOf(1)]
    ELSE IF ~f.doKeepHue /\ ~f.doKeepTone
    THEN [threw |-> FALSE, hueD |-> NoHue, value |-> NumOf(1)]
    ELSE LET d == Abs(HueOf(m) - HueOf(o))
             D == Min2(d, 24 - d)
             dT == NumOf(ToneDistance(o, m))
             sH == IF f.doKeepHue
                   THEN SubN(NumOf(1), DivN(SubN(NumOf(D), f.hueTol), SubN(f.maxHueD, f.hueTol)))
                   ELSE NumOf(Unchecked)
             sT == IF ~f.doKeepTone THEN NumOf(Unchecked)
                   ELSE IF f.kind = 2
                   THEN SubN(NumOf(1), DivN(SubN(dT, f.toneTol), SubN(f.maxToneD, f.toneTol)))
                   ELSE SubN(NumOf(1), DivN(SubN(dT, f.maxToneD), SubN(f.toneTol, f.maxToneD)))
         IN  [ threw |-> FALSE, hueD |-> IF f.doKeepHue THEN D ELSE NoHue,
               value |-> MinN(sH, sT) ]

PreScale(f, idx, o, m) ==
    IF f.kind = 1 THEN PreScale1(f, idx, o, m) ELSE PreScale23(f, o, m)

\* sum / div over the checked visions of the difference of two values
AveDifference(f, v0, v1) ==
    LET checked == { v \in 2 .. 4 : f.doCheck[v] }
        d == [v \in 1 .. 4 |-> IF v \in checked THEN ValueDifferenceFrom(v0, v1, Visions[v]) ELSE 0]
    IN  Frac(SumOf(d, 4), Cardinality(checked))

\* the pairs of candidates the loops of #updateRatioToTrichromacy do not skip
KeptPairs(f, cans0, cans1) ==
    { <<k0, k1>> \in (1 .. Len(cans0.vs)) \X (1 .. Len(cans1.vs)) :
        /\ ~LtN(PreScale23(f, GetOriginal(cans0), cans0.vs[k0]).value, NumOf(1))
        /\ ~LtN(PreScale23(f, GetOriginal(cans1), cans1.vs[k1]).value, NumOf(1)) }

\* maxDiff of #updateRatioToTrichromacy: vis = 0 for the average of variant 2
MaxDiffOfPairs(f, cans0, cans1, vis) ==
    LET ds == { IF vis = 0 THEN AveDifference(f, cans0.vs[q[1]], cans1.vs[q[2]])
                ELSE NumOf(ValueDifferenceFrom(cans0.vs[q[1]], cans1.vs[q[2]], Visions[vis])) :
                  q \in KeptPairs(f, cans0, cans1) }
    IN  IF vis # 0 /\ ~f.doCheck[vis] THEN NumOf(0)
        ELSE MaxN({NumOf(0)} \cup { d \in ds : ~IsNaN(d) })

\* a ratio update that assigns the new ratio whatever the old one is
LoweredUnconditionally(ratio, r) == r

\* if (r < ratio) ratio = r
Lowered(ratio, r) == IF LtN(r, ratio) THEN r ELSE ratio

\* #updateRatioToTrichromacy(cans0, cans1) of variants 2 and 3: the new ratios;
\* both originals are defined
UpdateRatioToTrichromacy(f, cans0, cans1) ==
    LET od == NumOf(DifferenceFrom(GetOriginal(cans0), GetOriginal(cans1)))
    IN  IF f.kind = 2
        THEN << Lowered(f.ratioToTri[1], DivN(MaxDiffOfPairs(f, cans0, cans1, 0), od)) >>
        ELSE [ v \in 1 .. 3 |->
                 Lowered(f.ratioToTri[v], DivN(MaxDiffOfPairs(f, cans0, cans1, v + 1), od)) ]

\* the relation newInstance returns once the ratios are settled: g is the
\* factory after #updateRatioToTrichromacy
RelationOf(g, idx0, idx1, orig0, orig1, nop) ==
    LET od == NumOf(DifferenceFrom(orig0, orig1))
    IN  [ threw |-> FALSE, rf |-> g,
          rel |-> [ idx0 |-> idx0, idx1 |-> idx1, nop |-> nop,
                    orig0 |-> orig0, orig1 |-> orig1,
                    tarDiff |-> [v \in 1 .. Len(g.ratioToTri) |-> MulN(od, g.ratioToTri[v])] ] ]

\* newInstance(idx0, idx1, cans0, cans1, noPreservation) of the three variants:
\* threw, the factory afterwards, the relation returned
NewInstance(f, idx0, idx1, cans0, cans1, nop) ==
    LET orig0 == GetOriginal(cans0)
        orig1 == GetOriginal(cans1)
        base == [idx0 |-> idx0, idx1 |-> idx1, nop |-> nop, orig0 |-> orig0, orig1 |-> orig1]
    IN  IF f.kind = 1 THEN [threw |-> FALSE, rf |-> f, rel |-> base]
        ELSE IF orig0 = Undefined \/ orig1 = Undefined
        THEN [threw |-> TRUE, rf |-> f, rel |-> base]
        ELSE IF f.kind = 3 \/ (nop # 0 /\ nop # 1)
        THEN CHOOSE r \in { RelationOf(g, idx0, idx1, orig0, orig1, nop) :
                              g \in { [f EXCEPT !.ratioToTri =
                                          UpdateRatioToTrichromacy(f, cans0, cans1)] } } : TRUE
        ELSE RelationOf(f, idx0, idx1, orig0, orig1, nop)

\* the adjacency pairs validateMaxDiff does not skip
ValidatedPairs(f, s) ==
    { k \in 1 .. Len(s.ads) :
        /\ f.kind = 2 => (s.ads[k][1] # f.bottleneckColor /\ s.ads[k][2] # f.bottleneckColor)
        /\ ~(IsFixed(s, s.ads[k][1]) /\ IsFixed(s, s.ads[k][2])) }

\* max of validateMaxDiff: vis = 0 for the average of variant 2
MaxDeltaDistance(f, s, vis) ==
    LET ratio == IF vis = 0 THEN f.ratioToTri[1] ELSE f.ratioToTri[vis - 1]
        Ds == { LET i0 == s.ads[k][1]
                    i1 == s.ads[k][2]
                    dT == NumOf(GetDifferenceVis(s, i0, i1, "T"))
                    d == IF vis = 0 THEN AveDifference(f, GetColor(s, i0), GetColor(s, i1))
                         ELSE NumOf(GetDifferenceVis(s, i0, i1, Visions[vis]))
                IN  AbsN(SubN(MulN(dT, ratio), d)) : k \in ValidatedPairs(f, s) }
    IN  IF vis # 0 /\ ~f.doCheck[vis] THEN NumOf(0)
        ELSE MaxN({NumOf(0)} \cup { D \in Ds : ~IsNaN(D) })

\* validateMaxDiff() of variants 2 and 3: the factory afterwards
ValidateMaxDiff(f, s) ==
    IF \E v \in 1 .. Len(f.maxDiff) : ~IsNaN(f.maxDiff[v]) THEN f
    ELSE IF f.kind = 2 THEN [f EXCEPT !.maxDiff = <<MaxDeltaDistance(f, s, 0)>>]
    ELSE [f EXCEPT !.maxDiff = [v \in 1 .. 3 |-> MaxDeltaDistance(f, s, v + 1)]]

\* RelationFactory1.#s2s(d, tarD)
S2S(f, d, tarD) == SubN(NumOf(1), DivN(NumOf(tarD - d), f.maxDiff))

\* Math.min over a non-empty sequence
RECURSIVE MinOfSeq(_, _)
MinOfSeq(xs, k) == IF k = 1 THEN xs[1] ELSE MinN(MinOfSeq(xs, k - 1), xs[k])

\* RelationFactory1.sepScale(cv0, cv1)
SepScale1(f, cv0, cv1) ==
    MinOfSeq([v \in 1 .. 4 |->
                IF f.doCheck[v] THEN S2S(f, ValueDifferenceFrom(cv0, cv1, Visions[v]), f.tarDiff)
                ELSE NumOf(Unchecked)], 4)

\* RelationFactory2.sepScale(v0, v1, tarDiff)
SepScale2(f, v0, v1, tarDiff) ==
    LET d == MinOfSeq([v \in 1 .. 4 |->
                         IF f.doCheck[v] THEN NumOf(ValueDifferenceFrom(v0, v1, Visions[v]))
                         ELSE NumOf(Unchecked)], 4)
    IN  SubN(NumOf(1), DivN(AbsN(SubN(tarDiff[1], d)), f.maxDiff[1]))

\* RelationFactory3.sepScale(v0, v1, tarDiffP, tarDiffD, tarDiffM)
SepScale3(f, v0, v1, tarDiff) ==
    MinOfSeq([v \in 1 .. 3 |->
                IF f.doCheck[v + 1]
                THEN SubN(NumOf(1),
                          DivN(AbsN(SubN(tarDiff[v],
                                         NumOf(ValueDifferenceFrom(v0, v1, Visions[v + 1])))),
                               f.maxDiff[v]))
                ELSE NumOf(Unchecked)], 3)

\* ColorRelation.#sig(s) = 1 / (1 + exp(-12 (s - 0.5))) in thousandths, tabulated
\* at steps of 0.1 of s; NaN for NaN
Sig12(x) ==
    IF IsNaN(x) THEN NaN
    ELSE IF LtN(x, Frac(-5, 10)) THEN Frac(0, 1000)
    ELSE IF LtN(x, Frac(1, 10)) THEN Frac(2, 1000)
    ELSE IF LtN(x, Frac(2, 10)) THEN Frac(8, 1000)
    ELSE IF LtN(x, Frac(3, 10)) THEN Frac(27, 1000)
    ELSE IF LtN(x, Frac(4, 10)) THEN Frac(83, 1000)
    ELSE IF LtN(x, Frac(5, 10)) THEN Frac(232, 1000)
    ELSE IF LtN(x, Frac(6, 10)) THEN Frac(500, 1000)
    ELSE IF LtN(x, Frac(7, 10)) THEN Frac(768, 1000)
    ELSE IF LtN(x, Frac(8, 10)) THEN Frac(917, 1000)
    ELSE IF LtN(x, Frac(9, 10)) THEN Frac(973, 1000)
    ELSE IF LtN(x, Frac(10, 10)) THEN Frac(992, 1000)
    ELSE IF LtN(x, Frac(15, 10)) THEN Frac(998, 1000)
    ELSE Frac(1000, 1000)

SigOf(f, x) == IF f.kind = 1 THEN Sig12(x) ELSE Sig(x)

\* the relation function after its validateMaxDiff() call: g is the factory
\* with maxDiff settled
DegreeAt(g, rel, cans0, cans1, val0, val1) ==
    LET cv0 == cans0.vs[val0]
        cv1 == cans1.vs[val1]
        sep == IF g.kind = 1 THEN SepScale1(g, cv0, cv1)
               ELSE IF g.kind = 2 THEN SepScale2(g, cv0, cv1, rel.tarDiff)
               ELSE SepScale3(g, cv0, cv1, rel.tarDiff)
        skip0 == rel.nop = 0 \/ (g.kind = 1 /\ val0 = 1)
        skip1 == rel.nop = 1 \/ (g.kind = 1 /\ val1 = 1)
        pre0 == PreScale(g, rel.idx0, rel.orig0, cv0)
        pre1 == PreScale(g, rel.idx1, rel.orig1, cv1)
        p0 == IF skip0 THEN NumOf(1) ELSE SigOf(g, pre0.value)
        p1 == IF skip1 THEN NumOf(1) ELSE SigOf(g, pre1.value)
    IN  [ threw |-> (~skip0 /\ pre0.threw) \/ (~skip1 /\ pre1.threw),
          value |-> MinN(MinN(SigOf(g, sep), p0), p1),
          sep |-> sep,
          hueD |-> (IF skip0 THEN <<>>
                    ELSE <<[o |-> rel.orig0, m |-> cv0, d |-> pre0.hueD, s |-> pre0.value]>>)
                   \o (IF skip1 THEN <<>>
                       ELSE <<[o |-> rel.orig1, m |-> cv1, d |-> pre1.hueD, s |-> pre1.value]>>),
          rf |-> g ]

\* a relation function that does not call validateMaxDiff()
SatisfactionDegreeUnvalidated(f, s, rel, cans0, cans1, val0, val1) ==
    DegreeAt(f, rel, cans0, cans1, val0, val1)

\* the relation function of the three variants at candidates val0, val1 (both in
\* range): threw, the degree, the preScale calls it made, the separation scale,
\* the factory afterwards
SatisfactionDegree(f, s, rel, cans0, cans1, val0, val1) ==
    CHOOSE r \in { DegreeAt(g, rel, cans0, cans1, val0, val1) :
                     g \in { IF f.kind = 1 THEN f ELSE ValidateMaxDiff(f, s) } } : TRUE

-----------------------------------------------------------------------------
(* SpecRel: one RelationFactory of any variant over a Scheme, newInstance calls
   for its adjacency pairs and evaluations of the relations returned *)

\* Parameters at their defaults and with one group of settings changed
RelParams ==
    {RelationParam}
    \cup { [RelationParam EXCEPT !.doCheckT = c[1], !.doCheckP = c[2], !.doCheckD = c[3],
                                 !.doCheckM = c[4]] :
             c \in { <<TRUE, FALSE, FALSE, FALSE>>, <<FALSE, FALSE, FALSE, TRUE>>,
                     <<FALSE, FALSE, FALSE, FALSE>> } }
    \cup { [RelationParam EXCEPT !.doKeepHue = h, !.doKeepTone = k] :
             h \in BOOLEAN, k \in BOOLEAN }
    \cup { [RelationParam EXCEPT !.hueTol = 0], [RelationParam EXCEPT !.conspicuity = TRUE] }

\* the Schemes a factory is built over: no slot fixed, or all of them
RelSchemes ==
    UNION { { s \in SchemesOfSize(n, Palettes(n), AdjacencyChoices(n)) :
                s.bn = 1 /\ \A i \in 1 .. n : s.fixed[i] = s.fixed[1] } :
              n \in 1 .. MaxSlots }

\* the candidates of a slot in list order: its own colour first, then samples
\* at these offsets
SampleOffsets == <<0, 2, 1, 3, 5, 4>>

\* one Candidates per slot; assigned tells whether the caller called
\* setOriginal with the slot's colour
RelCandidates(s, assigned, maxGrid) ==
    [ i \in 1 .. Size(s) |->
        LET cd == [NewCandidates EXCEPT
                      !.vs = [k \in 1 .. maxGrid + 1 |-> (GetColor(s, i) + SampleOffsets[k]) % 6]]
        IN  IF assigned THEN SetOriginal(cd, GetColor(s, i)) ELSE cd ]

RelInit ==
    /\ als = <<>>
    /\ mod = NoScheme
    /\ pc = "idle"
    /\ result = NoResult
    /\ call = 0
    /\ nsol = 0
    /\ baseline = -1
    /\ report = NoReport
    /\ given = NoScheme
    /\ prob = NoProblem
    /\ grids = <<>>
    /\ variant = 1
    /\ omit = NoOmit
    /\ built = NoBuild
    /\ dpc = "input"
    /\ org \in RelSchemes
    /\ param \in RelParams
    /\ cans \in { RelCandidates(org, a, MaxGrid) : a \in BOOLEAN }
    /\ rf \in { NewRelationFactory(kind, org, param, NoOmit) : kind \in 1 .. 3 }
    /\ rels = <<>>
    /\ ev = NoEvaluation
    /\ sm = NoMeasure

\* rf.newInstance(idx0, idx1, cans[idx0], cans[idx1], nop) for adjacency pair k;
\* as in adjust(), where the Problem is complete before the first relation is
\* evaluated, no relation is created once one has been evaluated
RelNewInstance(k, nop) ==
    /\ ~rf.threw
    /\ Len(rels) < MaxRelations
    /\ ev.op # "degree"
    /\ \E r \in { NewInstance(rf, org.ads[k][1], org.ads[k][2],
                                cans[org.ads[k][1]], cans[org.ads[k][2]], nop) } :
          /\ rf' = r.rf
          /\ rels' = IF r.threw THEN rels ELSE Append(rels, r.rel)
          /\ ev' = [op |-> "newInstance", threw |-> r.threw]
    /\ UNCHANGED <<org, param, grids, sm>>
    /\ UNCHANGED adjVars
    /\ UNCHANGED domVars

\* the k-th relation evaluated at candidates val0, val1
RelEvaluate(k, val0, val1) ==
    \E d \in { SatisfactionDegree(rf, org, rels[k], cans[rels[k].idx0], cans[rels[k].idx1],
                                    val0, val1) } :
        /\ rf' = d.rf
        /\ ev' = [ op |-> "degree", kind |-> rf.kind, rel |-> k, val0 |-> val0, val1 |-> val1,
                   threw |-> d.threw, value |-> IF d.threw THEN NaN ELSE d.value,
                   hueD |-> d.hueD, sep |-> d.sep ]
        /\ UNCHANGED <<org, param, grids, rels, sm>>
        /\ UNCHANGED adjVars
        /\ UNCHANGED domVars

RelNext ==
    \/ \E k \in 1 .. Len(org.ads), nop \in {-1, 0, 1} : RelNewInstance(k, nop)
    \/ \E k \in 1 .. Len(rels) :
         \E val0 \in 1 .. Len(cans[rels[k].idx0].vs), val1 \in 1 .. Len(cans[rels[k].idx1].vs) :
            RelEvaluate(k, val0, val1)

SpecRel == RelInit /\ [][RelNext]_vars

-----------------------------------------------------------------------------
(* SpecScheme: the read-only measures of one Scheme *)

\* the Schemes measured: up to MaxSlots + 1 colours of three RGB integers, all
\* pairs adjacent, none, or a chain; no slot fixed
MeasuredSchemes ==
    UNION { { NewScheme([i \in 1 .. n |-> FromInteger(c[i])], a, [i \in 1 .. n |-> FALSE],
                        1000, 1, <<0, 0>>) :
                c \in [1 .. n -> 0 .. 2], a \in AdjacencyChoices(n) } :
              n \in 1 .. MaxSlots + 1 }

\* the modified Schemes compared with s: every colour moved on by k RGB integers
Shifted(s, k) ==
    [s EXCEPT !.colors = [i \in 1 .. Size(s) |-> FromInteger((AsInteger(s.colors[i]) + k) % 3)]]

SchemeInit ==
    /\ AdjusterNew
    /\ org \in MeasuredSchemes
    /\ param = DefaultParam
    /\ grids = <<>>
    /\ variant = 1
    /\ omit = NoOmit
    /\ built = NoBuild
    /\ dpc = "input"
    /\ rf = NoFactory
    /\ rels = <<>>
    /\ ev = NoEvaluation
    /\ sm = NoMeasure

\* org.getCombinationList(T, P, D, M)
ReadCombinationList(T, P, D, M) ==
    /\ sm' = [ op |-> "getCombinationList", flags |-> <<T, P, D, M>>,
               list |-> GetCombinationList(org, T, P, D, M) ]
    /\ UNCHANGED <<org, param, grids, rf, rels, ev>>
    /\ UNCHANGED adjVars
    /\ UNCHANGED domVars

\* org.getLowestDifference(vis)
ReadLowestDifference(vis) ==
    /\ \E low \in {GetLowestDifference(org, vis)} :
          sm' = [ op |-> "getLowestDifference", vis |-> vis,
                  threw |-> low.threw, value |-> low.value ]
    /\ UNCHANGED <<org, param, grids, rf, rels, ev>>
    /\ UNCHANGED adjVars
    /\ UNCHANGED domVars

\* org.getConspicuityArray()
ReadConspicuityArray ==
    /\ sm' = [op |-> "getConspicuityArray", value |-> GetConspicuityArray(org)]
    /\ UNCHANGED <<org, param, grids, rf, rels, ev>>
    /\ UNCHANGED adjVars
    /\ UNCHANGED domVars

\* Scheme.aveDeltaH(org, m)
ReadAveDeltaH(m) ==
    /\ \E ave \in {AveDeltaH(org, m)} :
          sm' = [op |-> "aveDeltaH", mod |-> m, terms |-> ave.terms, value |-> ave.value]
    /\ UNCHANGED <<org, param, grids, rf, rels, ev>>
    /\ UNCHANGED adjVars
    /\ UNCHANGED domVars

\* org.getAdjacencyTable(omitted)
ReadAdjacencyTable(omitted) ==
    /\ sm' = [ op |-> "getAdjacencyTable", omitted |-> omitted,
               table |-> GetAdjacencyTable(org, omitted) ]
    /\ UNCHANGED <<org, param, grids, rf, rels, ev>>
    /\ UNCHANGED adjVars
    /\ UNCHANGED domVars

SchemeNext ==
    \/ \E T \in BOOLEAN, P \in BOOLEAN, D \in BOOLEAN, M \in BOOLEAN :
         ReadCombinationList(T, P, D, M)
    \/ \E omitted \in {NoOmit} \cup (1 .. Size(org)) : ReadAdjacencyTable(omitted)
    \/ \E v \in 1 .. 4 : ReadLowestDifference(Visions[v])
    \/ ReadConspicuityArray
    \/ \E k \in 0 .. 2 : ReadAveDeltaH(Shifted(org, k))

SpecScheme == SchemeInit /\ [][SchemeNext]_vars

-----------------------------------------------------------------------------
(* Properties of the solution callback (Spec) *)

\* a solution has been reported in the running adjust() call
Reported == pc = "solving" /\ nsol > 0

\* C1: for every reported solution the callback returns true exactly when the
\* reported worst degree is strictly above 0.999 or at least one registered
\* listener answered true
C1_StopIffThresholdOrListener ==
    Reported =>
        (report.finish <=>
            (report.degree > 999 \/ \E k \in 1 .. Len(report.answers) : report.answers[k]))

\* C1 witness: degree exactly 0.999, the first listener declines, the second
\* accepts, and the callback signalled stop
C1_Witness ==
    /\ Reported
    /\ report.degree = 999
    /\ report.answers = <<FALSE, TRUE>>
    /\ report.finish

\* C2: for every reported solution each entry of the listener list is called
\* once, in registration order, with the Scheme just built, whatever the degree
\* and the earlier answers are
C2_EveryListenerInOrder ==
    Reported =>
        /\ Len(report.calls) = Len(als)
        /\ Len(report.answers) = Len(als)
        /\ \A k \in 1 .. Len(als) :
             /\ report.calls[k].al = als[k]
             /\ report.calls[k].scheme = mod
             /\ report.calls[k].scheme.born = <<call, nsol>>

\* C2 witness: two different listeners, the degree is already 1 and the first
\* listener answered true, and the second was still called
C2_Witness ==
    /\ Reported
    /\ als = <<2, 1>>
    /\ report.degree = 1000
    /\ report.answers[1]
    /\ Len(report.calls) = 2

\* C7: the Scheme handed to the listeners has at slot i the RGB integer of
\* candidate solution[i] of slot i, the adjacency pairs of the input Scheme,
\* no fixed flag set and the reported worst degree as its quality
C7_HandedScheme ==
    Reported =>
        \A k \in 1 .. Len(report.calls) :
            LET m == report.calls[k].scheme
            IN  /\ Size(m) = Size(org)
                /\ \A i \in 1 .. Size(org) :
                     /\ report.solution[i] \in 1 .. Len(cans[i].vs)
                     /\ AsInteger(GetColor(m, i)) = AsInteger(cans[i].vs[report.solution[i]])
                     /\ GetColor(m, i) = FromInteger(AsInteger(cans[i].vs[report.solution[i]]))
                     /\ ~IsFixed(m, i)
                /\ m.ads = org.ads
                /\ m.quality = report.degree

\* C7 witness: two adjacent slots, the second fixed in the input, the solver
\* picked the second candidate of slot 1 with degree 0.5, a listener was called
C7_Witness ==
    /\ Reported
    /\ Size(org) = 2
    /\ org.ads # <<>>
    /\ IsFixed(org, 2)
    /\ report.solution[1] = 2
    /\ report.degree = 500
    /\ Len(report.calls) > 0

-----------------------------------------------------------------------------
(* Properties of adjust() (Spec) *)

\* adjust() has returned a value to its caller
HasReturned == pc = "idle" /\ result.kind \in {"scheme", "null", "undefined"}

\* C3: adjust() ends by returning a Scheme or null, never by an exception
\* reaching the caller
C3_NeverThrows ==
    (pc = "idle" /\ call > 0) => result.kind \in {"scheme", "null"}

\* C4: a non-null value adjust() returns is the Scheme built from the last
\* solution reported during that same call
C4_ReturnsLatestOfThisCall ==
    (pc = "idle" /\ result.kind \in {"scheme", "undefined"}) =>
        /\ result.kind = "scheme"
        /\ nsol > 0
        /\ result.value.born = <<call, nsol>>

C6_NoPairsReturnsQualityOne ==
    (pc = "idle" /\ call > 0 /\ org.ads = <<>>) =>
        /\ result.kind \in {"scheme", "null", "undefined"}
        /\ org.quality = 1000
        /\ baseline = 1000

C20_OnlyQualityChanged ==
    call > 0 =>
        /\ org.colors = given.colors
        /\ org.ads = given.ads
        /\ org.fixed = given.fixed
        /\ org.bn = given.bn
        /\ org = [given EXCEPT !.quality = org.quality]

\* C20 witness: adjust() returned a Scheme for an input with a fixed slot and
\* an adjacency pair, and the input's quality is no longer the one it came with
C20_Witness ==
    /\ pc = "idle"
    /\ result.kind = "scheme"
    /\ org.ads # <<>>
    /\ \E i \in 1 .. Size(org) : IsFixed(org, i)
    /\ org.quality # given.quality

-----------------------------------------------------------------------------
(* Properties of DomainFactory.build (SpecDom) *)

\* C9: build(-1) of either variant returns one Candidates per slot and none of
\* them has an empty value list
C9_NoEmptyCandidates ==
    (dpc = "built" /\ omit = NoOmit) =>
        /\ ~built.threw
        /\ Len(built.ret) = Size(org)
        /\ \A i \in 1 .. Size(org) : ~built.ret[i].isNull /\ Len(built.ret[i].vs) > 0

\* C9 witness: build(-1) on two slots, one fixed, the other with a grid whose
\* only sample is outside the gamut, so both lists come from the fallback
C9_Witness ==
    /\ dpc = "built"
    /\ omit = NoOmit
    /\ Size(org) = 2
    /\ IsFixed(org, 1)
    /\ ~IsFixed(org, 2)
    /\ grids[2] = <<OutOfGamut>>
    /\ Len(built.ret) = 2

\* C10: after build(k) for a slot k, getOriginal() of the Candidates returned
\* for k is the current colour of slot k
C10_OriginalOfOmitted ==
    (dpc = "built" /\ omit # NoOmit /\ ~built.threw) =>
        GetOriginal(built.ret[omit]) = GetColor(org, omit)

\* the slots build() gives the fallback to: fixed, or no sample passes the filter
IsFallbackSlot(i) ==
    /\ i # omit
    /\ \/ IsFixed(org, i)
       \/ Filtered(variant, org, param, i, grids[i],
                    CapOf(variant, org, param, GetAdjacencyTable(org, omit), i), 1) = <<>>

\* C11: a fixed slot, or a slot none of whose samples passes the filter, gets
\* exactly one value, its current colour, and getOriginal() returns that colour
C11_FallbackSingletonWithOriginal ==
    (dpc = "built" /\ ~built.threw) =>
        \A i \in 1 .. Size(org) :
            IsFallbackSlot(i) =>
                /\ built.ret[i].vs = <<GetColor(org, i)>>
                /\ GetOriginal(built.ret[i]) = GetColor(org, i)

\* the neighbours of slot i: joined to i by an adjacency pair that does not
\* contain the omit index
NeighboursOf(i) ==
    { j \in 1 .. Size(org) :
        /\ i # omit
        /\ j # omit
        /\ \E k \in 1 .. Len(org.ads) : org.ads[k] = <<i, j>> \/ org.ads[k] = <<j, i>> }

\* the cap of slot i: the global maximum in variant 1, the largest difference
\* to a neighbour in variant 2
SlotCap(i) ==
    IF variant = 1 THEN param.maxDiff
    ELSE IF NeighboursOf(i) = {} THEN 0
    ELSE CHOOSE d \in { GetDifference(org, i, j) : j \in NeighboursOf(i) } :
             \A j \in NeighboursOf(i) : GetDifference(org, i, j) <= d

\* C12: every value build() returns for a slot other than the omit index is
\* the singleton fallback or a displayable sample of the slot's grid within
\* the slot's cap and, where enabled, within the hue and the tone ceiling
C12_ValuesPassFilter ==
    (dpc = "built" /\ ~built.threw) =>
        \A i \in 1 .. Size(org) :
            i # omit =>
                \/ built.ret[i].vs = <<GetColor(org, i)>>
                \/ \A k \in 1 .. Len(built.ret[i].vs) :
                      LET v == built.ret[i].vs[k]
                      IN  /\ v \in LabPoints
                          /\ \E n \in 1 .. Len(grids[i]) : grids[i][n] = v
                          /\ DifferenceFrom(GetColor(org, i), v) <= SlotCap(i)
                          /\ param.doKeepHue =>
                                HueDistance(HueOf(v), HueOf(GetColor(org, i)))
                                    <= DHueMax(variant, param)
                          /\ param.doKeepTone =>
                                ToneDistanceSq(ToneOf(v), ToneOf(GetColor(org, i)))
                                    <= DToneMaxSq(variant, param)

\* C12 witness: variant 2 with hue preservation, slot 1 keeps a sample and
\* slot 2 falls back because its only sample, though displayable, is too far
\* in hue
C12_Witness ==
    /\ dpc = "built"
    /\ ~built.threw
    /\ variant = 2
    /\ omit = NoOmit
    /\ param.doKeepHue
    /\ Size(org) = 2
    /\ Len(built.ret[1].vs) = 1
    /\ built.ret[1].vs # <<GetColor(org, 1)>>
    /\ Len(grids[2]) = 1
    /\ grids[2][1] \in LabPoints
    /\ grids[2][1] # GetColor(org, 2)
    /\ built.ret[2].vs = <<GetColor(org, 2)>>

\* the slots other than the omit index
OtherSlots == { i \in 1 .. Size(org) : i # omit }

\* C13: build(k) gives slot k all displayable samples of the slot with the most
\* displayable samples in variant 1, and of slot k's own cell in variant 2
C13_FullDomainOfOmitted ==
    (dpc = "built" /\ omit # NoOmit /\ ~built.threw) =>
        IF variant = 1
        THEN OtherSlots # {} =>
               /\ ~built.ret[omit].isNull
               /\ \E j \in OtherSlots :
                    /\ built.ret[omit].vs = Displayable(grids[j], 1)
                    /\ \A i \in OtherSlots :
                         Len(Displayable(grids[i], 1)) <= Len(Displayable(grids[j], 1))
        ELSE built.ret[omit].vs = Displayable(grids[omit], 1)


-----------------------------------------------------------------------------
(* Properties of the RelationFactory variants (SpecRel) *)

\* the circular distance of two hues on the 24-step hue axis
CircularHueDistance(a, b) == Min2(Abs(a - b), 24 - Abs(a - b))

\* C14: every hue distance the core scores is the circular one,
\* min(|a-b|, 24-|a-b|): in the preservation score of the three RelationFactory
\* variants and in Scheme.aveDeltaH
C14_CircularHueDistance ==
    /\ (ev.op = "degree" /\ ~ev.threw) =>
          \A k \in 1 .. Len(ev.hueD) :
              ev.hueD[k].d # NoHue =>
                  ev.hueD[k].d = CircularHueDistance(HueOf(ev.hueD[k].m), HueOf(ev.hueD[k].o))
    /\ sm.op = "aveDeltaH" =>
          \A i \in 1 .. Len(sm.terms) :
              sm.terms[i] = CircularHueDistance(HueOf(GetColor(sm.mod, i)),
                                                HueOf(GetColor(org, i)))

\* C15: every degree a relation of any variant returns, for any Parameters and
\* any pair of candidates in range, is a defined number within [0, 1]
C15_DegreeInUnitInterval ==
    (ev.op = "degree" /\ ~ev.threw) =>
        /\ IsFiniteNum(ev.value)
        /\ LeN(NumOf(0), ev.value)
        /\ LeN(ev.value, NumOf(1))

\* the ratios to trichromacy a factory holds: one in variant 2, three in variant 3
RatiosOf(f) == IF f.kind \in {2, 3} THEN f.ratioToTri ELSE <<>>

\* C16: in variants 2 and 3 every ratio to trichromacy is 1 when the factory is
\* constructed, is never above 1, and no newInstance call (nor any other step)
\* raises it
C16_RatioNeverIncreases ==
    /\ \A v \in 1 .. Len(RatiosOf(rf)) : RatiosOf(rf)[v] = NumOf(1)
    /\ [](\A v \in 1 .. Len(RatiosOf(rf)) : LeN(RatiosOf(rf)[v], NumOf(1)))
    /\ [][\A v \in 1 .. Len(RatiosOf(rf)) : LeN(RatiosOf(rf')[v], RatiosOf(rf)[v])]_vars

\* C16 witness: a variant 2 factory after two newInstance calls, the ratio
\* lowered to a value strictly between 0 and 1
C16_Witness ==
    /\ rf.kind = 2
    /\ Len(rels) = 2
    /\ ev.op = "newInstance"
    /\ LtN(NumOf(0), rf.ratioToTri[1])
    /\ LtN(rf.ratioToTri[1], NumOf(1))

-----------------------------------------------------------------------------
(* Properties of Candidates (SpecDom) *)

\* C17: getOriginal() of a Candidates that holds a value and never had
\* setOriginal called returns the first value of the list, and after
\* setOriginal(v) it returns v
C17_GetOriginalFallsBackToFirst ==
    (dpc = "built" /\ ~built.threw) =>
        \A i \in 1 .. Len(built.ret) :
            LET cd == built.ret[i]
            IN  ~cd.isNull =>
                  /\ (cd.orig = Undefined /\ Len(cd.vs) > 0) => GetOriginal(cd) = cd.vs[1]
                  /\ \A v \in LabPoints : GetOriginal(SetOriginal(cd, v)) = v

-----------------------------------------------------------------------------
(* Properties of the Scheme measures (SpecScheme) *)

\* the visions getCombinationList was asked for
FlaggedVisions == { Visions[v] : v \in { w \in 1 .. 4 : sm.flags[w] } }

\* the least difference over all adjacency pairs under one vision
LeastDifference(vis) ==
    CHOOSE d \in { GetDifferenceVis(org, org.ads[k][1], org.ads[k][2], vis) :
                     k \in 1 .. Len(org.ads) } :
        \A k \in 1 .. Len(org.ads) :
            d <= GetDifferenceVis(org, org.ads[k][1], org.ads[k][2], vis)

\* C18: getCombinationList(T, P, D, M) returns, in ascending order of
\* difference, exactly one Combination per adjacency pair and flagged vision,
\* carrying the difference of the pair under that vision (all four flags give
\* the whole combination list), and getLowestDifference(v) is the least
\* difference of an adjacency pair under v
C18_CombinationsPerPairAscending ==
    /\ sm.op = "getCombinationList" =>
          /\ Len(sm.list) = Len(org.ads) * Cardinality(FlaggedVisions)
          /\ \A n \in 1 .. Len(sm.list) : sm.list[n].vision \in FlaggedVisions
          /\ \A n \in 1 .. Len(sm.list) - 1 : sm.list[n].diff <= sm.list[n + 1].diff
          /\ \A k \in 1 .. Len(org.ads), vis \in FlaggedVisions :
                Cardinality({ n \in 1 .. Len(sm.list) :
                                /\ sm.list[n].vision = vis
                                /\ {sm.list[n].index1, sm.list[n].index2}
                                     = {org.ads[k][1], org.ads[k][2]}
                                /\ sm.list[n].diff
                                     = GetDifferenceVis(org, org.ads[k][1], org.ads[k][2], vis) })
                  = 1
    /\ (sm.op = "getLowestDifference" /\ Len(org.ads) > 0) =>
          /\ ~sm.threw
          /\ sm.value = LeastDifference(sm.vis)

\* C18 witness: three colours, all pairs adjacent, the list asked for
\* trichromacy and deuteranopia holds six Combinations and is not constant
C18_Witness ==
    /\ sm.op = "getCombinationList"
    /\ sm.flags = <<TRUE, FALSE, TRUE, FALSE>>
    /\ org.ads = CreateAllAdjacencyList(3)
    /\ Len(sm.list) = 6
    /\ sm.list[1].diff < sm.list[6].diff
    /\ sm.list[1].vision # sm.list[2].vision

\* C19: getConspicuityArray() of a Scheme of two or more colours that do not
\* all have the same conspicuity, in any order, has one value per slot and
\* every value is within [0, 1]
C19_ConspicuityInUnitInterval ==
    ( /\ sm.op = "getConspicuityArray"
      /\ Size(org) >= 2
      /\ \E i \in 1 .. Size(org), j \in 1 .. Size(org) :
            AsConspicuity(GetColor(org, i)) # AsConspicuity(GetColor(org, j)) ) =>
        /\ Len(sm.value) = Size(org)
        /\ \A i \in 1 .. Size(org) :
              /\ IsFiniteNum(sm.value[i])
              /\ LeN(NumOf(0), sm.value[i])
              /\ LeN(sm.value[i], NumOf(1))

-----------------------------------------------------------------------------
(* Properties of the Problem adjust() builds (Spec) *)

\* the adjacency pairs of the input with an endpoint that is not fixed, in list order
ConstrainedPairs ==
    SelectSeq(given.ads, LAMBDA pr : ~(given.fixed[pr[1]] /\ given.fixed[pr[2]]))

\* the pairs of a list of constraints or newInstance calls
PairsOf(cs) == [k \in 1 .. Len(cs) |-> <<cs[k].idx0, cs[k].idx1>>]

\* C21: the Problem adjust() builds has one variable per slot, with domain
\* 0 .. (number of candidates of the slot) - 1 and value 0, and one constraint,
\* made by one newInstance call, per adjacency pair that has an endpoint that is
\* not fixed; a pair of two fixed slots gets neither a constraint nor a call
C21_OneVariablePerSlotOneConstraintPerPair ==
    prob.built =>
        /\ Len(prob.vars) = Size(given)
        /\ \A i \in 1 .. Size(given) :
              prob.vars[i] = [min |-> 0, max |-> Len(cans[i].vs) - 1, value |-> 0]
        /\ PairsOf(prob.cons) = ConstrainedPairs
        /\ PairsOf(prob.calls) = ConstrainedPairs

\* a Problem with a constraint and a variable that has more than one value
C21_Witness ==
    /\ prob.built
    /\ Len(prob.cons) > 0
    /\ \E i \in 1 .. Len(prob.vars) : prob.vars[i].max > 0
    /\ \E i \in 1 .. Size(given) : given.fixed[i]


\* C22: in bottleneck mode, every newInstance call for an adjacency pair that
\* holds the bottleneck slot passes the bottleneck's side as noPreservation:
\* 0 when the bottleneck is the first slot of the pair, 1 when it is the second,
\* whether or not the other slot is fixed
C22_BottleneckExemptOnItsEdges ==
    prob.bottleneck # NoOmit =>
        \A k \in 1 .. Len(prob.calls) :
            /\ prob.calls[k].idx0 = prob.bottleneck => prob.calls[k].nom = 0
            /\ prob.calls[k].idx1 = prob.bottleneck => prob.calls[k].nom = 1

\* C27: in every Scheme adjust() returns, each slot that is fixed in the input
\* has the colour it has in the input, in normal and in bottleneck mode
C27_FixedSlotsKeepTheirColor ==
    result.kind = "scheme" =>
        \A i \in 1 .. Size(given) :
            given.fixed[i] => GetColor(result.value, i) = GetColor(given, i)

\* C28: every variable of the Problem adjust() builds has a domain that is not
\* empty, min <= max, in bottleneck mode too
C28_NoEmptyDomain ==
    prob.built =>
        \A i \in 1 .. Len(prob.vars) : prob.vars[i].min <= prob.vars[i].max

-----------------------------------------------------------------------------
(* Properties of the candidate order (SpecDom) *)

\* C29: in every Candidates list build() returns for a slot other than the
\* omitted one, the first candidate is the slot's current colour, unchanged
C29_FirstCandidateIsCurrentColor ==
    (dpc = "built" /\ ~built.threw) =>
        \A i \in 1 .. Size(org) :
            (i # omit /\ Len(built.ret[i].vs) > 0) =>
                AsInteger(built.ret[i].vs[1]) = AsInteger(GetColor(org, i))

-----------------------------------------------------------------------------
(* Properties of the adjacency table (SpecScheme) *)

\* is j in the neighbour list of i?
Lists(table, i, j) == \E k \in 1 .. Len(table[i]) : table[i][k] = j

\* does some adjacency pair join i and j?
Joined(i, j) ==
    \E k \in 1 .. Len(org.ads) : org.ads[k] = <<i, j>> \/ org.ads[k] = <<j, i>>

\* C26: getAdjacencyTable(omit) returns one neighbour list per slot, and j is in
\* the list of i exactly when an adjacency pair joins i and j and neither is the
\* omitted index; so the table is symmetric, the omitted slot's list is empty
\* and the omitted slot is in no list; omit = -1 excludes nothing
C26_AdjacencyTable ==
    sm.op = "getAdjacencyTable" =>
        /\ Len(sm.table) = Size(org)
        /\ \A i \in 1 .. Size(org) :
              /\ \A k \in 1 .. Len(sm.table[i]) : sm.table[i][k] \in 1 .. Size(org)
              /\ \A j \in 1 .. Size(org) :
                    /\ Lists(sm.table, i, j)
                          <=> (Joined(i, j) /\ i # sm.omitted /\ j # sm.omitted)
                    /\ Lists(sm.table, i, j) <=> Lists(sm.table, j, i)
                    /\ ~Lists(sm.table, i, sm.omitted)
        /\ sm.omitted # NoOmit => sm.table[sm.omitted] = <<>>
        /\ sm.omitted = NoOmit =>
              \A i, j \in 1 .. Size(org) : Joined(i, j) => Lists(sm.table, i, j)

\* a table of three slots, all pairs adjacent, with one slot omitted
C26_Witness ==
    /\ sm.op = "getAdjacencyTable"
    /\ Size(org) = 3
    /\ sm.omitted = 2
    /\ Joined(1, 2) /\ Joined(2, 3) /\ Joined(1, 3)
    /\ sm.table = << <<3>>, <<>>, <<1>> >>

-----------------------------------------------------------------------------
(* Properties of the separation and preservation scales (SpecRel) *)

\* the candidates the last evaluation was made at
EvaluatedFirst == cans[rels[ev.rel].idx0].vs[ev.val0]

EvaluatedSecond == cans[rels[ev.rel].idx1].vs[ev.val1]

\* the last operation evaluated a relation of variant kind, with some
\* non-trichromatic vision enabled, and returned
Evaluated(kind) ==
    /\ ev.op = "degree"
    /\ ev.kind = kind
    /\ ~ev.threw
    /\ \E v \in 2 .. 4 : rf.doCheck[v]

\* are a and b the same number: both NaN, or neither below the other?
SameN(a, b) ==
    IF IsNaN(a) \/ IsNaN(b) THEN IsNaN(a) /\ IsNaN(b)
    ELSE ~LtN(a, b) /\ ~LtN(b, a)

\* 1 - |target - d| / maxDiff
ScoreOf(target, d, maxDiff) == SubN(NumOf(1), DivN(AbsN(SubN(target, d)), maxDiff))

\* C24: the separation scale of variant 2 is computed from the average of the
\* pair's differences over the enabled non-trichromatic visions, the aggregate
\* of the ratio discovery and of maxDiff; the one of variant 3 is the minimum
\* over the enabled visions of per-vision scores, each with its own target
C24_SeparationAggregates ==
    /\ Evaluated(2) =>
          SameN(ev.sep, ScoreOf(rels[ev.rel].tarDiff[1],
                                AveDifference(rf, EvaluatedFirst, EvaluatedSecond),
                                rf.maxDiff[1]))
    /\ Evaluated(3) =>
          \E w \in { v \in 1 .. 3 : rf.doCheck[v + 1] } :
              LET score(v) ==
                      ScoreOf(rels[ev.rel].tarDiff[v],
                              NumOf(ValueDifferenceFrom(EvaluatedFirst, EvaluatedSecond,
                                                        Visions[v + 1])),
                              rf.maxDiff[v])
              IN  /\ SameN(ev.sep, score(w))
                  /\ \A v \in { u \in 1 .. 3 : rf.doCheck[u + 1] } :
                        IsNaN(score(w)) \/ ~LtN(score(v), score(w))

\* 1 at the tolerance, 0 at the ceiling, linear in the deviation
Subscore(deviation, tol, ceiling) ==
    SubN(NumOf(1), DivN(SubN(deviation, tol), SubN(ceiling, tol)))

\* the raw preservation score the configured tolerances call for, original o,
\* candidate m of another colour
PreservationOf(o, m) ==
    LET sH == IF param.doKeepHue
              THEN Subscore(NumOf(CircularHueDistance(HueOf(m), HueOf(o))),
                            NumOf(param.hueTol),
                            NumOf(Min2(2 * param.hueTol, MAX_DELTA_HUE)))
              ELSE NumOf(Unchecked)
        sT == IF param.doKeepTone
              THEN Subscore(NumOf(ToneDistance(o, m)),
                            NumOf(param.toneTol),
                            NumOf(Min2(2 * param.toneTol, MAX_DELTA_TONE)))
              ELSE NumOf(Unchecked)
    IN  MinN(sH, sT)

\* C25: in variants 2 and 3 alike, the raw preservation score of a candidate
\* of another colour than the original is the minimum of the enabled hue and
\* tone subscores, each 1 at the configured tolerance and 0 at the ceiling
\* min(2 * tolerance, perceptual maximum); a candidate of the original's
\* colour scores 1
C25_PreservationScale ==
    (ev.op = "degree" /\ ev.kind \in {2, 3} /\ ~ev.threw) =>
        \A k \in 1 .. Len(ev.hueD) :
            LET o == ev.hueD[k].o
                m == ev.hueD[k].m
            IN  IF AsInteger(o) = AsInteger(m) THEN SameN(ev.hueD[k].s, NumOf(1))
                ELSE (param.doKeepHue \/ param.doKeepTone) =>
                         SameN(ev.hueD[k].s, PreservationOf(o, m))

-----------------------------------------------------------------------------
(* Properties of the ratio and of maxDiff over the life of a factory (SpecRel) *)

\* has validateMaxDiff() assigned maxDiff?
IsValidated(f) ==
    f.kind \in {2, 3} /\ \E v \in 1 .. Len(f.maxDiff) : ~IsNaN(f.maxDiff[v])

\* maxDiff as validateMaxDiff() computes it from the ratios f has now
MaxDiffNow(f) ==
    ValidateMaxDiff([f EXCEPT !.maxDiff = [v \in 1 .. Len(f.maxDiff) |-> NaN]], org).maxDiff

C30_TargetUsesFinalRatio ==
    (rf.kind = 2 /\ IsValidated(rf)) =>
        \A k \in 1 .. Len(rels) :
            SameN(rels[k].tarDiff[1],
                  MulN(NumOf(DifferenceFrom(rels[k].orig0, rels[k].orig1)), rf.ratioToTri[1]))

=============================================================================
